---- MODULE Spec2Model ----
(***************************************************************************)
(* A model of FileWatcher (src/watcher.py): the handle table fds, the      *)
(* offset table progress, the bounded queue, the file and directory        *)
(* pollers, the stop flag and the dispatcher, over a small file system.    *)
(*                                                                         *)
(* The pollers and the dispatcher run on one event-loop thread: a poller   *)
(* cycle (the code between two awaits) is one step.  queue.Queue is a      *)
(* thread-blocking queue: a put() on a full queue blocks the event-loop    *)
(* thread itself until a get() from the host frees a slot.  The host's     *)
(* calls (add_path, close, stop, get, handle_msg, run) are one step each.  *)
(***************************************************************************)
EXTENDS Integers, Sequences, FiniteSets, TLC

(***************************** bounds **************************************)
\* the capacity given to the constructor (qmaxsize)
QMaxSize == 2
\* the host and the writers make at most this many calls in all (appends,
\* file creations, add_path, close, stop, run, register_handler and task
\* creations); the pollers' cycles, get and handle_msg are not counted
MaxOps == 3

(*************************** the file system *******************************)
\* Python's None where a handle is expected (a handle is its cursor, >= 0)
None == -1
\* Python's None where a pattern is expected
NoPath == "None"
\* no queue entry.  An entry is {"path": path, "msg": msg}; off (where the
\* line starts in the file) and pre (the line starts inside the content the
\* file held when it was opened) are history only.
NoEntry == [path |-> "None", msg |-> <<>>, off |-> 0, pre |-> FALSE]
\* what get() has returned: the stripped line, with the history of its
\* entry, the length get() committed (len) and the number of open() calls
\* on the path so far (gen)
NoLine == [path |-> "None", msg |-> <<>>, off |-> 0, pre |-> FALSE,
           len |-> 0, gen |-> 0]

NL == "\n"
SP == " "
Whitespace == {SP, NL}

\* the regular files and the directory of the working directory /w
Files == {"/w/a.log", "/w/x.tmp.log", "/w/d/new.log"}
DirPaths == {"/w/d"}
\* names as glob returns them for a relative pattern
RelNames == {"a.log", "x.tmp.log", "d", "d/new.log"}

\* what a writer appends in one write
Chunks == {<<"a", NL>>, <<"b">>}
\* what a file can hold before the watcher is constructed
OldContents == {<<>>, <<"a", NL>>, <<"a", NL, "b", NL>>}

abspath(n) ==
    CASE n = "a.log" -> "/w/a.log"
      [] n = "x.tmp.log" -> "/w/x.tmp.log"
      [] n = "d" -> "/w/d"
      [] n = "d/new.log" -> "/w/d/new.log"
      [] OTHER -> n

\* fnmatch of a name against a pattern: * does not cross a separator, and a
\* pattern without magic characters matches the name equal to it
fnmatch(pat, n) ==
    CASE pat = "*" -> n \in {"a.log", "x.tmp.log", "d"}
      [] pat = "*.log" -> n \in {"a.log", "x.tmp.log"}
      [] pat = "*.tmp.log" -> n = "x.tmp.log"
      [] pat = "d/*" -> n = "d/new.log"
      [] OTHER -> n = pat

VARIABLES
    exists,          \* the files that exist
    content,         \* file -> its characters
    denied,          \* the files open() fails on
    cfg,             \* the constructor's arguments
    files_excluded, dirs, handlers, fds, progress, queue, stop_watch_flag,
    fds_keys,        \* the keys of fds in insertion order
    wtask,           \* file -> position of the task running watch_file(file)
    dtask,           \* directory -> position of the task running watch_dir
    blocked,         \* the entry of the put() the event loop is blocked in
    ops,             \* the number of calls of the host and the writers
    run_state,       \* "none", or "raised" once run() has raised
    inflight,        \* the line get() returned, until handle_msg takes it
    opens,           \* history: file -> number of open() calls on it
    openLen,         \* history: file -> its length at the last open()
    readLen,         \* history: file -> characters read since the last open()
    returned,        \* history: the lines get() returned, in order
    calls,           \* history: the handler actions invoked, in order
    stoppedAsleep,   \* history: stop() was called with no poller in put()
    last             \* history: what the last step did

vars == <<exists, content, denied, cfg, files_excluded, dirs, handlers, fds,
          progress, queue, stop_watch_flag, fds_keys, wtask, dtask, blocked,
          ops, run_state, inflight, opens, openLen, readLen, returned,
          calls, stoppedAsleep, last>>

fsVars == <<exists, content, denied>>
cfgVars == <<cfg, files_excluded, dirs>>
tableVars == <<fds, progress, fds_keys>>
openHist == <<opens, openLen, readLen>>

(***************************** helpers *************************************)
\* the orders a set can be iterated in
Orders(S) ==
    {s \in [1..Cardinality(S) -> S] :
        \A i, j \in 1..Cardinality(S) : i # j => s[i] # s[j]}

isfile(p) == p \in Files /\ p \in exists
isdir(p) == p \in DirPaths

glob(pat) ==
    {n \in RelNames \cup Files \cup DirPaths :
        /\ fnmatch(pat, n)
        /\ (isfile(abspath(n)) \/ isdir(abspath(n)))}

FILE_PICK_TYPE == 1
DIR_PICK_TYPE == 2

_parse_path(path, pick_type) ==
    IF path = NoPath THEN {}
    ELSE {abspath(n) : n \in
            {m \in glob(path) :
                \/ pick_type = FILE_PICK_TYPE /\ isfile(abspath(m))
                \/ pick_type = DIR_PICK_TYPE /\ isdir(abspath(m))}}

parse_path(path, pick_type) == _parse_path(path, pick_type)

\* open() as it would be with the cursor left at the end: f.seek(0, 2)
open_at_eof(path) ==
    IF path \in denied \/ path \notin exists THEN None
    ELSE Len(content[path])

\* open(): a handle is its cursor; f.seek(0) leaves it at the start
open(path) ==
    IF path \in denied \/ path \notin exists THEN None ELSE 0

\* f.readline() at cursor pos: up to and including the next newline, or
\* whatever is left when the file ends before one
RECURSIVE readline(_, _)
readline(c, pos) ==
    IF pos >= Len(c) THEN <<>>
    ELSE IF c[pos + 1] = NL THEN <<NL>>
    ELSE <<c[pos + 1]>> \o readline(c, pos + 1)

\* str.strip()
RECURSIVE lstrip(_)
lstrip(s) ==
    IF s # <<>> /\ Head(s) \in Whitespace THEN lstrip(Tail(s)) ELSE s

RECURSIVE rstrip(_)
rstrip(s) ==
    IF s # <<>> /\ s[Len(s)] \in Whitespace
    THEN rstrip(SubSeq(s, 1, Len(s) - 1)) ELSE s

strip(s) == rstrip(lstrip(s))

\* dict.pop(k), and the keys left in their order
Pop(d, k) == [q \in DOMAIN d \ {k} |-> d[q]]

Without(s, k) == SelectSeq(s, LAMBDA q : q # k)

\* the constructor's arguments the model tries
Configs ==
    { [path |-> "a.log", exclude |-> NoPath, every |-> FALSE],
      [path |-> "*.log", exclude |-> "*.tmp.log", every |-> FALSE],
      [path |-> "*", exclude |-> NoPath, every |-> TRUE] }

\* the handlers a host registers: a predicate and a list of actions
HandlerNames == {"any", "hasA"}
match(h, msg) ==
    IF h = "any" THEN TRUE ELSE \E i \in 1..Len(msg) : msg[i] = "a"
funcs(h) == IF h = "any" THEN <<"f1", "f2">> ELSE <<"g1">>

(***************************** __init__ ************************************)
Init ==
    /\ exists = {"/w/a.log", "/w/x.tmp.log"}
    /\ content \in [Files -> OldContents]
    /\ content["/w/d/new.log"] = <<>>
    /\ Len(content["/w/x.tmp.log"]) <= 2
    /\ denied \in {{}, {"/w/a.log"}}
    /\ cfg \in Configs
    /\ files_excluded = parse_path(cfg.exclude, FILE_PICK_TYPE)
    /\ dirs = IF cfg.every THEN parse_path(cfg.path, DIR_PICK_TYPE) ELSE {}
    /\ handlers = <<>>
    /\ LET files_included == parse_path(cfg.path, FILE_PICK_TYPE)
           files == files_included \ files_excluded
       IN  /\ fds_keys \in Orders(files)
           /\ fds = [p \in files |-> open(p)]
           /\ progress = [p \in files |-> 0]
           /\ opens = [p \in Files |-> IF p \in files THEN 1 ELSE 0]
    /\ openLen = [p \in Files |-> Len(content[p])]
    /\ readLen = [p \in Files |-> 0]
    /\ queue = <<>>
    /\ stop_watch_flag = FALSE
    /\ wtask = [p \in Files |-> "none"]
    /\ dtask = [d \in DirPaths |-> "none"]
    /\ blocked = NoEntry
    /\ ops = 0
    /\ run_state = "none"
    /\ inflight = NoLine
    /\ returned = <<>>
    /\ calls = <<>>
    /\ stoppedAsleep = FALSE
    /\ last = "init"

(************************ the world outside ********************************)
\* a writer appends a chunk to an existing file
AppendToFile(f, chunk) ==
    /\ f \in exists
    /\ ops < MaxOps
    /\ ops' = ops + 1
    /\ content' = [content EXCEPT ![f] = @ \o chunk]
    /\ last' = "other"
    /\ UNCHANGED <<exists, denied, cfgVars, handlers, tableVars, queue,
                   stop_watch_flag, wtask, dtask, blocked, run_state,
                   inflight, openHist, returned, calls, stoppedAsleep>>

\* a new, empty regular file appears in the watched directory
CreateFile(f) ==
    /\ ops < MaxOps
    /\ ops' = ops + 1
    /\ f \in Files \ exists
    /\ exists' = exists \cup {f}
    /\ last' = "other"
    /\ UNCHANGED <<content, denied, cfgVars, handlers, tableVars, queue,
                   stop_watch_flag, wtask, dtask, blocked, run_state,
                   inflight, openHist, returned, calls, stoppedAsleep>>

(************************** the handle table *******************************)
\* the registration as it would be without `self.progress[p] = 0`
Register_handle_only(ord) ==
    LET new == {ord[i] : i \in 1..Len(ord)} IN
    /\ fds' = [q \in DOMAIN fds \cup new |->
                IF q \in new THEN open(q) ELSE fds[q]]
    /\ progress' = progress
    /\ fds_keys' = fds_keys \o ord
    /\ opens' = [q \in Files |-> IF q \in new THEN opens[q] + 1 ELSE opens[q]]
    /\ openLen' = [q \in Files |->
                IF q \in new THEN Len(content[q]) ELSE openLen[q]]
    /\ readLen' = [q \in Files |-> IF q \in new THEN 0 ELSE readLen[q]]

\* for p in new (iterated as ord): fds[p] = open(p); progress[p] = 0
Register(ord) ==
    LET new == {ord[i] : i \in 1..Len(ord)} IN
    /\ fds' = [q \in DOMAIN fds \cup new |->
                IF q \in new THEN open(q) ELSE fds[q]]
    /\ progress' = [q \in DOMAIN progress \cup new |->
                IF q \in new THEN 0 ELSE progress[q]]
    /\ fds_keys' = fds_keys \o ord
    /\ opens' = [q \in Files |-> IF q \in new THEN opens[q] + 1 ELSE opens[q]]
    /\ openLen' = [q \in Files |->
                IF q \in new THEN Len(content[q]) ELSE openLen[q]]
    /\ readLen' = [q \in Files |-> IF q \in new THEN 0 ELSE readLen[q]]

\* the patterns a host passes to add_path
AddPatterns == {"*.log", "d/*"}

add_path(path) ==
    LET new == parse_path(path, FILE_PICK_TYPE) \ DOMAIN fds IN
    /\ ops < MaxOps
    /\ ops' = ops + 1
    /\ \E ord \in Orders(new) : Register(ord)
    /\ last' = "other"
    /\ UNCHANGED <<fsVars, cfgVars, handlers, queue, stop_watch_flag, wtask,
                   dtask, blocked, run_state, inflight, returned, calls,
                   stoppedAsleep>>

\* close(): self.fds[path].close() raises AttributeError on a None handle
close(path) ==
    /\ ops < MaxOps
    /\ ops' = ops + 1
    /\ IF path \in DOMAIN fds /\ fds[path] # None
       THEN /\ fds' = [fds EXCEPT ![path] = None]
            /\ last' = "other"
       ELSE /\ fds' = fds
            /\ last' = IF path \in DOMAIN fds THEN "close_raised"
                                               ELSE "other"
    /\ UNCHANGED <<fsVars, cfgVars, handlers, progress, queue,
                   stop_watch_flag, fds_keys, wtask, dtask, blocked,
                   run_state, inflight, openHist, returned, calls,
                   stoppedAsleep>>

\* for p in self.fds.keys(): self.close(p) -- the loop ends at the first
\* key whose close() raises
RECURSIVE CloseAll(_, _)
CloseAll(keys, f) ==
    IF keys = <<>> THEN [fds |-> f, raised |-> FALSE]
    ELSE IF f[Head(keys)] = None THEN [fds |-> f, raised |-> TRUE]
    ELSE CloseAll(Tail(keys), [f EXCEPT ![Head(keys)] = None])

stop ==
    LET r == CloseAll(fds_keys, fds) IN
    /\ ops < MaxOps
    /\ ops' = ops + 1
    /\ stop_watch_flag' = TRUE
    /\ fds' = r.fds
    /\ last' = IF r.raised
               THEN (IF stop_watch_flag THEN "restop_raised" ELSE "stop_raised")
               ELSE (IF stop_watch_flag THEN "restop_ok" ELSE "stop_ok")
    /\ stoppedAsleep' = (stoppedAsleep \/ blocked = NoEntry)
    /\ UNCHANGED <<fsVars, cfgVars, handlers, progress, queue, fds_keys,
                   wtask, dtask, blocked, run_state, inflight, openHist,
                   returned, calls>>

(****************************** the queue **********************************)
\* put() as it would be with put_nowait and the Full error swallowed
put_drop(q, e) ==
    IF e.msg = <<>> \/ Len(q) >= QMaxSize
    THEN [queue |-> q, blocked |-> NoEntry]
    ELSE [queue |-> Append(q, e), blocked |-> NoEntry]

\* put(): `if msg:` skips an empty read; Queue.put blocks while the queue
\* is full.  Gives the queue, and the entry the caller is left blocked on.
put(q, e) ==
    IF e.msg = <<>> THEN [queue |-> q, blocked |-> NoEntry]
    ELSE IF Len(q) < QMaxSize THEN [queue |-> Append(q, e), blocked |-> NoEntry]
    ELSE [queue |-> q, blocked |-> e]

\* commit() as it would be with = for +=
commit_assign(prog, path, offset) == [prog EXCEPT ![path] = offset]

\* commit() as it would be if it did nothing
commit_skip(prog, path, offset) == prog

\* commit(): self.progress[path] += offset
commit(prog, path, offset) == [prog EXCEPT ![path] = @ + offset]

\* Queue.get() as a LifoQueue would do it: the newest entry
QueueGetLast(q) == [entry |-> q[Len(q)], queue |-> SubSeq(q, 1, Len(q) - 1)]

\* Queue.get(): the oldest entry
QueueGet(q) == [entry |-> Head(q), queue |-> Tail(q)]

\* get(): commit() raises KeyError when the path has left progress; the
\* entry is gone from the queue by then
get ==
    LET r == QueueGet(queue)
        e == r.entry
        line == [path |-> e.path, msg |-> strip(e.msg), off |-> e.off,
                 pre |-> e.pre, len |-> Len(e.msg), gen |-> opens[e.path]]
    IN  /\ queue # <<>>
        /\ inflight = NoLine
        /\ queue' = r.queue
        /\ IF e.path \in DOMAIN progress
           THEN /\ progress' = commit(progress, e.path, Len(e.msg))
                /\ inflight' = line
                /\ returned' = Append(returned, line)
                /\ last' = "other"
           ELSE /\ last' = "get_raised"
                /\ UNCHANGED <<progress, inflight, returned>>
        /\ UNCHANGED <<fsVars, cfgVars, handlers, fds, stop_watch_flag,
                       fds_keys, wtask, dtask, blocked, ops, run_state,
                       openHist, calls, stoppedAsleep>>

\* the blocked Queue.put() returns once a slot is free
PutCompletes ==
    /\ blocked # NoEntry
    /\ Len(queue) < QMaxSize
    /\ queue' = Append(queue, blocked)
    /\ blocked' = NoEntry
    /\ wtask' = [wtask EXCEPT ![blocked.path] = "sleep"]
    /\ last' = "put_completes"
    /\ UNCHANGED <<fsVars, cfgVars, handlers, tableVars, stop_watch_flag,
                   dtask, ops, run_state, inflight, openHist, returned, calls,
                   stoppedAsleep>>

(***************************** the pollers *********************************)
\* the loop test as it would be with `while True`
LoopRunsAlways == TRUE

\* `while not self.stop_watch_flag`
LoopRuns == ~stop_watch_flag

StartWatchFile(path) ==
    /\ ops < MaxOps
    /\ ops' = ops + 1
    /\ path \in DOMAIN fds
    /\ wtask[path] = "none"
    /\ wtask' = [wtask EXCEPT ![path] = "sleep"]
    /\ last' = "other"
    /\ UNCHANGED <<fsVars, cfgVars, handlers, tableVars, queue,
                   stop_watch_flag, dtask, blocked, run_state, inflight,
                   openHist, returned, calls, stoppedAsleep>>

\* the except clause as it would be if it raised the error again: the task
\* ends with it
except_reraise == "done"

\* `except Exception as e: logging.warning(...)`: where an error inside the
\* try leaves the task -- on its way to the sleep, still in the loop
except_Exception == "sleep"

\* one cycle of watch_file(path), from the loop test to the sleep
watch_file(path) ==
    /\ wtask[path] = "sleep"
    /\ blocked = NoEntry
    /\ IF ~LoopRuns
       THEN /\ wtask' = [wtask EXCEPT ![path] = "done"]
            /\ last' = "poller_exit"
            /\ UNCHANGED <<tableVars, queue, blocked, readLen>>
       ELSE IF path \notin DOMAIN fds
       THEN \* self.fds[path] raises KeyError, which is caught
            /\ wtask' = [wtask EXCEPT ![path] = except_Exception]
            /\ last' = "poller_keyerror"
            /\ UNCHANGED <<tableVars, queue, blocked, readLen>>
       ELSE IF fds[path] # None
       THEN \E ioerr \in BOOLEAN :
            IF ioerr
            THEN \* f.readline() raises, which is caught
                 /\ wtask' = [wtask EXCEPT ![path] = except_Exception]
                 /\ last' = "poller_read_error"
                 /\ UNCHANGED <<tableVars, queue, blocked, readLen>>
            ELSE LET msg == readline(content[path], fds[path])
                     e == [path |-> path, msg |-> msg, off |-> fds[path],
                           pre |-> fds[path] < openLen[path]]
                     r == put(queue, e)
                 IN  /\ fds' = [fds EXCEPT ![path] = @ + Len(msg)]
                     /\ readLen' = [readLen EXCEPT ![path] = @ + Len(msg)]
                     /\ queue' = r.queue
                     /\ blocked' = r.blocked
                     /\ wtask' = [wtask EXCEPT ![path] =
                            IF r.blocked = NoEntry THEN "sleep" ELSE "put"]
                     /\ last' = "poller_read"
                     /\ UNCHANGED <<progress, fds_keys>>
       ELSE /\ fds' = Pop(fds, path)
            /\ progress' = Pop(progress, path)
            /\ fds_keys' = Without(fds_keys, path)
            /\ wtask' = [wtask EXCEPT ![path] = "sleep"]
            /\ last' = "poller_pop"
            /\ UNCHANGED <<queue, blocked, readLen>>
    /\ UNCHANGED <<fsVars, cfgVars, handlers, stop_watch_flag, dtask, ops,
                   run_state, inflight, opens, openLen, returned, calls,
                   stoppedAsleep>>

StartWatchDir(path) ==
    /\ ops < MaxOps
    /\ ops' = ops + 1
    /\ path \in dirs
    /\ dtask[path] = "none"
    /\ dtask' = [dtask EXCEPT ![path] = "sleep"]
    /\ last' = "other"
    /\ UNCHANGED <<fsVars, cfgVars, handlers, tableVars, queue,
                   stop_watch_flag, wtask, blocked, run_state, inflight,
                   openHist, returned, calls, stoppedAsleep>>

\* one cycle of watch_dir(path), from the loop test to the sleep
watch_dir(path) ==
    /\ dtask[path] = "sleep"
    /\ blocked = NoEntry
    /\ IF ~LoopRuns
       THEN /\ dtask' = [dtask EXCEPT ![path] = "done"]
            /\ last' = "other"
            /\ UNCHANGED <<tableVars, openHist>>
       ELSE LET new == parse_path(path, FILE_PICK_TYPE) \ DOMAIN fds IN
            /\ \E ord \in Orders(new) : Register(ord)
            /\ dtask' = [dtask EXCEPT ![path] = "sleep"]
            /\ last' = IF new = {} THEN "dir_scan" ELSE "dir_add"
    /\ UNCHANGED <<fsVars, cfgVars, handlers, queue, stop_watch_flag, wtask,
                   blocked, ops, run_state, inflight, returned, calls,
                   stoppedAsleep>>

(**************************** the dispatcher *******************************)
register_handler(h) ==
    /\ ops < MaxOps
    /\ ops' = ops + 1
    /\ \A i \in 1..Len(handlers) : handlers[i] # h
    /\ handlers' = Append(handlers, h)
    /\ last' = "other"
    /\ UNCHANGED <<fsVars, cfgVars, tableVars, queue, stop_watch_flag, wtask,
                   dtask, blocked, run_state, inflight, openHist, returned,
                   calls, stoppedAsleep>>

\* for func in handler.funcs: await func(msg)
RECURSIVE FuncCalls(_, _, _)
FuncCalls(h, fs, e) ==
    IF fs = <<>> THEN <<>>
    ELSE <<[handler |-> h, func |-> Head(fs), entry |-> e]>>
         \o FuncCalls(h, Tail(fs), e)

\* for handler in self.handlers: if handler.match(msg): ...
RECURSIVE HandlerCalls(_, _)
HandlerCalls(hs, e) ==
    IF hs = <<>> THEN <<>>
    ELSE (IF match(Head(hs), e.msg) THEN FuncCalls(Head(hs), funcs(Head(hs)), e)
          ELSE <<>>)
         \o HandlerCalls(Tail(hs), e)

\* handle_msg() on the line the last get() returned
handle_msg ==
    /\ inflight # NoLine
    /\ calls' = calls \o HandlerCalls(handlers, inflight)
    /\ inflight' = NoLine
    /\ last' = "other"
    /\ UNCHANGED <<fsVars, cfgVars, handlers, tableVars, queue,
                   stop_watch_flag, wtask, dtask, blocked, ops, run_state,
                   openHist, returned, stoppedAsleep>>

\* run(): self.paths is no attribute of FileWatcher, so building the task
\* list raises AttributeError before any task is created
run ==
    /\ ops < MaxOps
    /\ run_state = "none"
    /\ run_state' = "raised"
    /\ ops' = ops + 1
    /\ last' = "run_raised"
    /\ UNCHANGED <<fsVars, cfgVars, handlers, tableVars, queue,
                   stop_watch_flag, wtask, dtask, blocked, inflight, openHist,
                   returned, calls, stoppedAsleep>>

(*************************** the state machine *****************************)
Next ==
    \/ \E f \in Files, chunk \in Chunks : AppendToFile(f, chunk)
    \/ \E f \in Files : CreateFile(f)
    \/ \E pat \in AddPatterns : add_path(pat)
    \/ \E p \in Files : close(p)
    \/ stop
    \/ get
    \/ PutCompletes
    \/ \E p \in Files : StartWatchFile(p)
    \/ \E p \in Files : watch_file(p)
    \/ \E d \in DirPaths : StartWatchDir(d)
    \/ \E d \in DirPaths : watch_dir(d)
    \/ \E h \in HandlerNames : register_handler(h)
    \/ handle_msg
    \/ run

Spec == Init /\ [][Next]_vars

\* The event loop runs every task that is ready, a blocked Queue.put()
\* returns once a slot is free, and the consumer keeps calling get() and
\* handle_msg().  Nothing obliges the host or the writers to make a call.
Fairness ==
    /\ \A p \in Files : WF_vars(watch_file(p))
    /\ \A d \in DirPaths : WF_vars(watch_dir(d))
    /\ WF_vars(PutCompletes)
    /\ WF_vars(get)
    /\ WF_vars(handle_msg)

FairSpec == Spec /\ Fairness

\* What the event loop alone guarantees: every task that is ready gets to
\* run, and a blocked Queue.put() returns once a slot is free.  get() is a
\* call of the host, made from outside the loop, and no code of the watcher
\* obliges anyone to make it.
LoopFairness ==
    /\ \A p \in Files : WF_vars(watch_file(p))
    /\ \A d \in DirPaths : WF_vars(watch_dir(d))
    /\ WF_vars(PutCompletes)

LoopSpec == Spec /\ LoopFairness

(***************************************************************************)
(*                              the claims                                 *)
(***************************************************************************)
\* path p is one of the names pattern pat matches
Matched(pat, p) ==
    /\ pat # NoPath
    /\ \E n \in RelNames \cup Files : abspath(n) = p /\ fnmatch(pat, n)

\* every entry the queue side holds: queued, or in a blocked put()
Pending == queue \o (IF blocked = NoEntry THEN <<>> ELSE <<blocked>>)

\* C1, as claimed (no replay): no line that starts inside the content a
\* file held when it was opened is ever put on the queue or returned by get()
C1_NoReplay ==
    /\ \A i \in DOMAIN Pending : ~Pending[i].pre
    /\ \A i \in DOMAIN returned : ~returned[i].pre

\* C1, amended: open() leaves the cursor at the start of the file, so the
\* lines a poller has read since the open tile the file from offset 0 up
\* to the cursor: the content the file held at the open is read first.
C1_ReadsFromStart ==
    \A p \in DOMAIN fds :
        fds[p] # None => /\ fds[p] = readLen[p]
                         /\ fds[p] <= Len(content[p])

\* a line of the content a file held when it was opened has been returned
C1_Witness == \E i \in DOMAIN returned : returned[i].pre

\* C2, as claimed (exclusion): no path matched by the include pattern and
\* by the exclude pattern is a key of fds or of progress, and open() has
\* never been called on one
C2_Exclusion ==
    \A p \in Files :
        (Matched(cfg.path, p) /\ Matched(cfg.exclude, p)) =>
            /\ p \notin DOMAIN fds
            /\ p \notin DOMAIN progress
            /\ opens[p] = 0

\* the characters get() has committed for p since p was opened
RECURSIVE SumLen(_, _, _)
SumLen(log, p, g) ==
    IF log = <<>> THEN 0
    ELSE (IF Head(log).path = p /\ Head(log).gen = g THEN Head(log).len ELSE 0)
         + SumLen(Tail(log), p, g)

\* for every tracked path, progress is the sum of the lengths (newline
\* included) of the lines get() has returned for it since it was opened
OffsetIsDelivered ==
    \A p \in DOMAIN progress : progress[p] = SumLen(returned, p, opens[p])

\* while a path stays tracked its progress does not decrease, and a step
\* in which get() returns nothing (a read, a put) leaves it as it is
OffsetSteps ==
    \A p \in DOMAIN progress :
        p \in DOMAIN progress' =>
            /\ progress'[p] >= progress[p]
            /\ returned' = returned => progress'[p] = progress[p]

\* C3 (offset equals delivered bytes): after N successful get() calls for a
\* tracked path, progress is the sum of the lengths of the N lines as they
\* were enqueued; a line read and enqueued but not yet returned does not
\* change it, and it never decreases
C3_OffsetEqualsDelivered ==
    /\ []OffsetIsDelivered
    /\ [][OffsetSteps]_vars

\* two lines of a path have been returned, a third is waiting
C3_Witness ==
    \E p \in DOMAIN progress :
        /\ \E i, j \in DOMAIN returned :
              i < j /\ returned[i].path = p /\ returned[j].path = p
                    /\ returned[i].gen = opens[p]
        /\ \E i \in DOMAIN Pending : Pending[i].path = p
        /\ progress[p] > 0

\* a poller that has read a non-empty line (its cursor has moved) has put
\* it last in the queue, or is blocked on it with the queue full
ReadAccounted ==
    \A p \in Files :
        (p \in DOMAIN fds /\ p \in DOMAIN fds' /\ fds[p] # None
            /\ fds'[p] > fds[p]) =>
        LET e == [path |-> p,
                  msg |-> SubSeq(content[p], fds[p] + 1, fds'[p]),
                  off |-> fds[p], pre |-> fds[p] < openLen[p]]
        IN  \/ Len(queue) < QMaxSize /\ queue' = Append(queue, e)
                                     /\ blocked' = NoEntry
            \/ Len(queue) = QMaxSize /\ queue' = queue /\ blocked' = e

\* a blocked put() keeps its line while entries leave the queue, and the
\* line goes last in the queue when the put() completes
BlockedKept ==
    blocked # NoEntry =>
        \/ blocked' = blocked /\ queue' = queue
        \/ blocked' = blocked /\ queue # <<>> /\ queue' = Tail(queue)
        \/ blocked' = NoEntry /\ queue' = Append(queue, blocked)

\* C4 (backpressure without loss): the queue never holds more than
\* QMaxSize entries, and a line put while it is full is kept until a get()
\* frees a slot and then goes into the queue after the entries before it
C4_Backpressure ==
    /\ [](Len(queue) <= QMaxSize)
    /\ [][ReadAccounted /\ BlockedKept]_vars

\* a put() that was blocked has completed
C4_Witness == last = "put_completes" /\ Len(queue) = QMaxSize

C6_EndToEnd ==
    ( /\ cfg.path = "a.log"
      /\ opens["/w/a.log"] = 1 /\ openLen["/w/a.log"] = 0
      /\ handlers = <<"any">>
      /\ run_state = "raised"
      /\ content["/w/a.log"] = <<"a", NL>> )
    ~> (\E i \in DOMAIN calls :
            /\ calls[i].handler = "any"
            /\ calls[i].entry.path = "/w/a.log"
            /\ calls[i].entry.msg = <<"a">>)

\* C7, as claimed (directory discovery): the directory poller of /w/d is
\* running, stop() has not been called, and a file has been created in the
\* directory and written to; then the file eventually is a key of fds
C7_DirectoryDiscovery ==
    ( /\ "/w/d" \in dirs
      /\ dtask["/w/d"] = "sleep"
      /\ ~stop_watch_flag
      /\ "/w/d/new.log" \in exists
      /\ content["/w/d/new.log"] # <<>> )
    ~> ("/w/d/new.log" \in DOMAIN fds \/ stop_watch_flag)

\* C8 (stop halts production): once stop() has been called with every poller
\* in its sleep, no step is a read of a file poller, a put of one, or a
\* directory poller adding a key to fds
C8_StopHaltsProduction ==
    stoppedAsleep =>
        last \notin {"poller_read", "poller_read_error", "put_completes",
                     "dir_add"}

\* a poller that had read lines has left its loop after such a stop()
C8_Witness ==
    /\ stoppedAsleep
    /\ \E p \in Files : wtask[p] = "done" /\ readLen[p] > 0
    /\ \E d \in DirPaths : dtask[d] = "done"

\* C9, as claimed (stop closes everything): a call of stop() does not raise,
\* and after it no key of fds holds an open handle
C9_StopClosesAll ==
    last \in {"stop_ok", "stop_raised", "restop_ok", "restop_raised"} =>
        /\ last \in {"stop_ok", "restop_ok"}
        /\ \A p \in DOMAIN fds : fds[p] = None

\* C10, as claimed (stop is idempotent): a call of stop() after an earlier
\* one does not raise and leaves the flag, fds, progress and the queue as
\* they were
C10_StopIdempotent ==
    [][(stop_watch_flag /\ ops' # ops
            /\ last' \in {"restop_ok", "restop_raised"}) =>
        /\ last' = "restop_ok"
        /\ stop_watch_flag' = stop_watch_flag
        /\ fds' = fds /\ fds_keys' = fds_keys
        /\ progress' = progress
        /\ queue' = queue]_vars

\* C11, as claimed (close is a no-op on closed or unknown paths): a call of
\* close(path) on a path that is no key of fds, or whose handle is None,
\* raises nothing and leaves fds, progress and the queue as they were
C11_CloseIsNoOp ==
    [][\A p \in Files :
        (close(p) /\ (p \notin DOMAIN fds \/ fds[p] = None)) =>
            /\ last' # "close_raised"
            /\ fds' = fds /\ fds_keys' = fds_keys
            /\ progress' = progress
            /\ queue' = queue]_vars

\* C12, as claimed (only complete lines are forwarded): every entry a file
\* poller has put on the queue ends with a newline, and a poller's cursor
\* never stands inside a line (it is at 0 or just after a newline)
C12_OnlyCompleteLines ==
    /\ \A i \in DOMAIN Pending :
          Pending[i].msg[Len(Pending[i].msg)] = NL
    /\ \A p \in DOMAIN fds :
          fds[p] > 0 => content[p][fds[p]] = NL

\* the poller of p has removed p from the tables: a key leaves fds only in
\* the poller's own cycle, so p was opened and is no key now, or has been
\* opened again since
SelfRemoved(p) ==
    \/ p \notin DOMAIN fds /\ opens[p] >= 1
    \/ p \in DOMAIN fds /\ opens[p] >= 2

\* C13, as claimed (a null handle ends the poller): the cycle in which the
\* poller of p finds a None handle removes p from fds and from progress and
\* is the poller's last; once it has removed p, the poller makes no cycle in
\* which it looks p up, reads the file or puts an entry, also when p has
\* been registered again
C13_NullHandleEndsPoller ==
    [][\A p \in Files :
        /\ (watch_file(p) /\ LoopRuns /\ p \in DOMAIN fds /\ fds[p] = None) =>
              /\ p \notin DOMAIN fds'
              /\ p \notin DOMAIN progress'
              /\ wtask'[p] = "done"
        /\ (SelfRemoved(p) /\ LoopRuns) => ~watch_file(p)]_vars

\* the part of C13 that is about a path registered again: the poller that
\* removed p does not put a line of p on the queue afterwards
C13_NoReadAfterRemoval ==
    [][\A p \in Files :
        (SelfRemoved(p) /\ watch_file(p)) => last' # "poller_read"]_vars

\* the characters of the entries of p that wait in es
RECURSIVE WaitingLen(_, _)
WaitingLen(es, p) ==
    IF es = <<>> THEN 0
    ELSE (IF Head(es).path = p THEN Len(Head(es).msg) ELSE 0)
         + WaitingLen(Tail(es), p)

\* C14, as claimed (the offset tracks what was enqueued): for every tracked
\* path, progress is the total length of the lines its poller has put
\* since the path was opened, dequeued or not
C14_OffsetIsEnqueued ==
    \A p \in DOMAIN progress : progress[p] = readLen[p]

\* C14, amended: progress counts the lines get() has dequeued, not the lines
\* put.  For a path tracked without interruption (opened once) it is the
\* total length of the lines its poller has put less the length of those
\* still waiting in the queue or in a blocked put()
C14_OffsetIsDequeued ==
    \A p \in DOMAIN progress :
        opens[p] = 1 =>
            /\ progress[p] = readLen[p] - WaitingLen(Pending, p)
            /\ progress[p] <= readLen[p]

\* a path has lines dequeued, a line in the queue and a line in a blocked
\* put() at once
C14_Witness ==
    \E p \in DOMAIN progress :
        /\ opens[p] = 1
        /\ progress[p] > 0
        /\ WaitingLen(queue, p) > 0
        /\ blocked.path = p

\* C15 (no torn table entry): in every state a task can observe, the keys
\* of fds are the keys of progress
C15_NoTornEntry == DOMAIN fds = DOMAIN progress

\* a key added by add_path is in the tables just after a poller has removed
\* its own
C15_Witness ==
    /\ last = "poller_pop"
    /\ "/w/d/new.log" \in DOMAIN fds
    /\ "/w/a.log" \notin DOMAIN fds

\* get() hands on the entry it takes: a step that shortens the queue
\* returns the whitespace-trimmed line of the entry at its head
DequeuedIsReturned ==
    Len(queue') < Len(queue) =>
        /\ queue' = Tail(queue)
        /\ inflight' # NoLine
        /\ inflight'.path = Head(queue).path
        /\ inflight'.msg = strip(Head(queue).msg)
        /\ returned' = Append(returned, inflight')

\* the line get() returned is passed to the actions of the handlers that
\* match it, in registration order and list order, before the next get()
ReturnedIsHandled ==
    /\ (inflight # NoLine /\ inflight' # inflight) =>
          /\ inflight' = NoLine
          /\ queue' = queue
          /\ calls' = calls \o HandlerCalls(handlers, inflight)
    /\ calls' # calls => inflight # NoLine

\* C16, as claimed (the dispatcher drains the queue): every entry put on
\* the queue is eventually dequeued, each dequeued entry is returned once
\* and its trimmed line is passed to the matching handlers' actions, in
\* order, before the next entry is dequeued
C16_DispatcherDrains ==
    /\ [][DequeuedIsReturned /\ ReturnedIsHandled]_vars
    /\ (queue # <<>>) ~> (queue = <<>> /\ inflight = NoLine)

\* C17, as claimed (blocking on the queue stalls only the caller): while a
\* file poller is blocked in put() on a full queue, every other poller that
\* is due can still make its cycle
C17_BlockingStallsOnlyCaller ==
    blocked # NoEntry =>
        /\ \A p \in Files : wtask[p] = "sleep" => ENABLED watch_file(p)
        /\ \A d \in DirPaths : dtask[d] = "sleep" => ENABLED watch_dir(d)

\* C19 (a read error costs one cycle only): a cycle of a file poller in
\* which the read raises puts nothing, leaves fds and progress as they were
\* and leaves the poller in its loop; after it a poller with an open handle
\* is due for its next cycle
C19_ReadErrorOneCycle ==
    /\ [][\A p \in Files :
            (watch_file(p) /\ last' = "poller_read_error") =>
                /\ queue' = queue /\ blocked' = blocked
                /\ fds' = fds /\ fds_keys' = fds_keys
                /\ progress' = progress
                /\ wtask'[p] = "sleep"]_vars
    /\ [](last = "poller_read_error" =>
            \E p \in DOMAIN fds :
                wtask[p] = "sleep" /\ fds[p] # None /\ blocked = NoEntry)

\* a read has raised in a poller that has read lines before and has more
\* of the file to read
C19_Witness ==
    /\ last = "poller_read_error"
    /\ \E p \in DOMAIN fds :
          /\ wtask[p] = "sleep" /\ fds[p] # None
          /\ readLen[p] > 0 /\ fds[p] < Len(content[p])

\* C18, as claimed (pollers terminate after stop): once stop() has set the
\* flag, every file poller and every directory poller that was started
\* eventually has left its loop, also one that was in a put() on a full
\* queue when stop() was called
C18_PollersTerminate ==
    stop_watch_flag ~>
        /\ \A p \in Files : wtask[p] \in {"none", "done"}
        /\ \A d \in DirPaths : dtask[d] \in {"none", "done"}

\* C20, as claimed (get() never fails on a queued entry): the path of
\* every entry in the queue is a key of progress, and no get() has raised
\* and dropped the entry it took
C20_GetNeverFails ==
    /\ \A i \in DOMAIN queue : queue[i].path \in DOMAIN progress
    /\ last # "get_raised"

====
